---------------------------- MODULE Spec2Model ----------------------------
(***************************************************************************)
(* Model of python/converters/plovasp/proj_group.py (class ProjectorGroup) *)
(*                                                                         *)
(* Energies are integers: twice the value used in the documentation, so    *)
(* that the half-integer window bounds of the documented scenarios are     *)
(* integers here ([-1, 0, 1] with window (-0.5, 0.5) is [-2, 0, 2] with    *)
(* window (-1, 1)).  Array indices are 0-based as in the source.           *)
(***************************************************************************)
EXTENDS Integers, Sequences, FiniteSets, TLC

\* ------------------------------------------------------------------ bounds
\* at most this many (k-point, spin) pairs in the eigenvalue array
MaxPairs == 2
\* number of bands of the full eigenvalue array
NBand == 3

\* number of projector shells handed to the group
NShell == 2
\* largest number of sites (nion) and of orbitals (nlm) of a shell
MaxIon == 2
MaxLm == 2
\* largest number of rows (Nm) and columns (Nb) of a projector matrix handed
\* to orthogonalize_projector_matrix on its own
MaxNm == 2
MaxNb == 2

\* number of MPI processes of a run
NProc == 3

\* largest number of brackets recorded by a Bracket object
MaxBrackets == 3

\* band energies and window bounds the inputs are drawn from
Energies == {-2, 0, 2}
WindowBounds == -3 .. 3
\* number of spin channels of the band data (ns_band)
SpinChannels == {1, 2}

\* initial value of the running minimum in select_bands
IbMinInit == 10000000

VARIABLES
    eigvals,    \* eigenvalue array handed to select_bands: eigvals[ik][isp][ib]
    nband,      \* length of its band axis
    emin, emax, \* self.emin, self.emax
    pc,         \* position in select_bands: "check", "loop", "done", "failed"
    isp, ik,    \* loop counters of select_bands
    ib_win,     \* local ib_win: ib_win[ik][isp] = <<ib1, ib2>>; NoWin before allocation
    ib_min, ib_max, \* locals ib_min, ib_max
    result,     \* "none", "ok", "WindowMismatch", "EmptyWindow"
    err_ik,     \* k-point named by the assertion message (-1: none)
    run,        \* 1: on the full eigenvalues, 2: on the windowed eigenvalues
    first,      \* what the first run returned (NoWin before)
    shells,     \* self.shells: shells[ish] = [nion, nlm], the shape of its proj_win
    ishells,    \* self.ishells: the shells of the group, a list of shell indices
    normion,    \* self.normion
    ortho,      \* self.ortho
    nb_max,     \* self.nb_max
    proj_win,   \* the shells' storage: proj_win[ish][ion][isp][ik][ilm][ib]
    proj0,      \* proj_win as it was when orthogonalize() was called
    ibm,        \* orthogonalize(): place of bl_map in block_maps (from 1)
    block_maps, \* block_maps of get_block_matrix_map
    ndim,       \* ndim of get_block_matrix_map
    p_mat,      \* a projector matrix: p_mat[row][column]
    p_orth,     \* the orthogonalized matrix (<<>> when there is none)
    orth_log,   \* orthogonalize(): the calls of orthogonalize_projector_matrix so far
    ferw,       \* el_struct.ferw: ferw[isp][ik][ib], band occupations
    kweights,   \* el_struct.kmesh['kweights']: kweights[ik]
    nelect,     \* self.nelect
    calls,      \* the calls of shell.select_projectors so far, in order
    rank_pc,    \* messaging: position of each MPI process in its call
    hdf,        \* messaging: groups of the HDF file, hdf[name][item] = <<value, writer>>
    brackets,   \* Bracket.brackets, a list counted from 1 (BracketsNone: None)
    ended       \* what are_brackets_ended() returned last ("none" before)

bandVars == <<eigvals, nband, emin, emax, isp, ik, ib_win, ib_min, ib_max,
              err_ik, run, first>>
groupVars == <<shells, ishells, normion, ortho, nb_max>>
projVars == <<proj_win, proj0, ibm>>
mapVars == <<block_maps, ndim>>
matVars == <<p_mat, p_orth>>
nelectVars == <<ferw, kweights, nelect>>
msgVars == <<rank_pc, hdf, brackets, ended>>
auxVars == <<nelectVars, calls, msgVars>>

vars == <<pc, result, bandVars, groupVars, mapVars, matVars, projVars, orth_log, auxVars>>

NoWin == "nowin"
\* self.brackets = None: a record of brackets that is not a list yet
BracketsNone == <<"None">>

\* ------------------------------------------------------------- helpers
Min2(a, b) == IF a <= b THEN a ELSE b
Max2(a, b) == IF a >= b THEN a ELSE b

\* shape of the eigenvalue array: nk, nband, ns_band = eigvals.shape
NK(e) == Cardinality(DOMAIN e)
NS(e) == Cardinality(DOMAIN e[0])

\* eigvals[ik, ib, isp]
EigAt(e, k, b, s) == e[k][s][b]

AllEnergies(e) == {EigAt(e, k, b, s) : k \in DOMAIN e, s \in DOMAIN e[0], b \in DOMAIN e[0][0]}

\* eigvals.max(), eigvals.min()
ArrMax(e) == CHOOSE x \in AllEnergies(e) : \A y \in AllEnergies(e) : y <= x
ArrMin(e) == CHOOSE x \in AllEnergies(e) : \A y \in AllEnergies(e) : x <= y

\* a sanity check with the two extrema exchanged
WindowMismatchSwapped(e, lo, hi) == lo > ArrMin(e) \/ hi < ArrMax(e)

\* the sanity check: the window does not overlap the band structure
WindowMismatch(e, lo, hi) == lo > ArrMax(e) \/ hi < ArrMin(e)

\* for ib in xrange(nband): if eigvals[ik, ib, isp] >= emin: break
\* the value of ib after the loop (nband - 1 when the loop runs to its end)
RECURSIVE ScanLower(_, _, _, _, _, _)
ScanLower(e, k, s, ib, n, lo) ==
    IF EigAt(e, k, ib, s) >= lo THEN ib
    ELSE IF ib + 1 < n THEN ScanLower(e, k, s, ib + 1, n, lo)
    ELSE ib

\* a scan that forgets the adjustment of the for-else branch
RECURSIVE ScanUpperNoAdjust(_, _, _, _, _, _)
ScanUpperNoAdjust(e, k, s, ib, n, hi) ==
    IF EigAt(e, k, ib, s) > hi THEN ib
    ELSE IF ib + 1 < n THEN ScanUpperNoAdjust(e, k, s, ib + 1, n, hi)
    ELSE ib

\* a scan that stops at a band lying exactly on emax
RECURSIVE ScanUpperStrict(_, _, _, _, _, _)
ScanUpperStrict(e, k, s, ib, n, hi) ==
    IF EigAt(e, k, ib, s) >= hi THEN ib
    ELSE IF ib + 1 < n THEN ScanUpperStrict(e, k, s, ib + 1, n, hi)
    ELSE ib + 1

\* for ib in xrange(ib1, nband): if eigvals[ik, ib, isp] > emax: break
\* else: ib += 1
\* the value of ib after the loop and its else branch
RECURSIVE ScanUpper(_, _, _, _, _, _)
ScanUpper(e, k, s, ib, n, hi) ==
    IF EigAt(e, k, ib, s) > hi THEN ib
    ELSE IF ib + 1 < n THEN ScanUpper(e, k, s, ib + 1, n, hi)
    ELSE ib + 1

\* ib1 and ib2 of one (k-point, spin) pair
Ib1(e, k, s, n, lo) == ScanLower(e, k, s, 0, n, lo)
Ib2(e, k, s, n, lo, hi) == ScanUpper(e, k, s, Ib1(e, k, s, n, lo), n, hi) - 1

\* a running minimum taken over ib2 instead of ib1
NewIbMinWrong(cur, ib1, ib2) == Min2(cur, ib2)

\* ib_min = min(ib_min, ib1); ib_max = max(ib_max, ib2)
NewIbMin(cur, ib1, ib2) == Min2(cur, ib1)
NewIbMax(cur, ib1, ib2) == Max2(cur, ib2)

\* np.zeros((nk, ns_band, 2))
ZeroWin(e) == [k \in DOMAIN e |-> [s \in DOMAIN e[0] |-> <<0, 0>>]]

\* the eigenvalue array restricted to the bands lo .. hi of every pair
Windowed(e, lo, hi) ==
    [k \in DOMAIN e |-> [s \in DOMAIN e[0] |-> [b \in 0 .. hi - lo |-> e[k][s][b + lo]]]]

\* ------------------------------------------------------------- inputs
SortedBands(n) ==
    {f \in [0 .. n - 1 -> Energies] : \A i \in 0 .. n - 2 : f[i] <= f[i + 1]}

Shapes == {sh \in (1 .. MaxPairs) \X SpinChannels : sh[1] * sh[2] <= MaxPairs}

EigArrays ==
    UNION {[0 .. sh[1] - 1 -> [0 .. sh[2] - 1 -> SortedBands(NBand)]] : sh \in Shapes}

\* the parts of the state an operation does not use
BandIdle ==
    /\ eigvals = <<>>
    /\ nband = 0
    /\ emin = 0
    /\ emax = 0
    /\ isp = 0
    /\ ik = 0
    /\ ib_win = NoWin
    /\ ib_min = 0
    /\ ib_max = 0
    /\ err_ik = -1
    /\ run = 1
    /\ first = NoWin
GroupIdle == shells = <<>> /\ ishells = <<>> /\ normion = FALSE /\ ortho = FALSE /\ nb_max = 0
ProjIdle == proj_win = <<>> /\ proj0 = <<>> /\ ibm = 0
MapIdle == block_maps = <<>> /\ ndim = 0
MatIdle == p_mat = <<>> /\ p_orth = <<>>
LogIdle == orth_log = <<>>
NelectIdle == ferw = <<>> /\ kweights = <<>> /\ nelect = 0
CallsIdle == calls = <<>>
MsgIdle == rank_pc = <<>> /\ hdf = <<>> /\ brackets = BracketsNone /\ ended = "none"
AuxIdle == NelectIdle /\ CallsIdle /\ MsgIdle

Init ==
    /\ eigvals \in EigArrays
    /\ nband = NBand
    /\ emin \in WindowBounds
    /\ emax \in WindowBounds
    /\ pc = "check"
    /\ isp = 0
    /\ ik = 0
    /\ ib_win = NoWin
    /\ ib_min = IbMinInit
    /\ ib_max = 0
    /\ result = "none"
    /\ err_ik = -1
    /\ run = 1
    /\ first = NoWin
    /\ GroupIdle
    /\ MapIdle
    /\ MatIdle
    /\ ProjIdle
    /\ LogIdle
    /\ AuxIdle

\* ------------------------------------------------- select_bands, step by step
\* the sanity check raises
SanityFail ==
    /\ pc = "check"
    /\ WindowMismatch(eigvals, emin, emax)
    /\ pc' = "failed"
    /\ result' = "WindowMismatch"
    /\ UNCHANGED <<eigvals, nband, emin, emax, isp, ik, ib_win, ib_min, ib_max,
                   err_ik, run, first>>
    /\ UNCHANGED <<groupVars, mapVars, matVars, projVars, orth_log, auxVars>>

\* the sanity check passes: the locals are set up
SanityPass ==
    /\ pc = "check"
    /\ ~WindowMismatch(eigvals, emin, emax)
    /\ pc' = "loop"
    /\ ib_win' = ZeroWin(eigvals)
    /\ ib_min' = IbMinInit
    /\ ib_max' = 0
    /\ isp' = 0
    /\ ik' = 0
    /\ UNCHANGED <<eigvals, nband, emin, emax, result, err_ik, run, first>>
    /\ UNCHANGED <<groupVars, mapVars, matVars, projVars, orth_log, auxVars>>

\* one pass of the body of the (isp, ik) loops whose assertion fails
BandStepFail ==
    /\ pc = "loop"
    /\ LET ib1 == Ib1(eigvals, ik, isp, nband, emin)
           ib2 == Ib2(eigvals, ik, isp, nband, emin, emax)
       IN  /\ ~(ib1 <= ib2)
           /\ pc' = "failed"
           /\ result' = "EmptyWindow"
           /\ err_ik' = ik
    /\ UNCHANGED <<eigvals, nband, emin, emax, isp, ik, ib_win, ib_min, ib_max,
                   run, first>>
    /\ UNCHANGED <<groupVars, mapVars, matVars, projVars, orth_log, auxVars>>

\* one pass of the body of the (isp, ik) loops; the last one returns
BandStep ==
    /\ pc = "loop"
    /\ LET ib1 == Ib1(eigvals, ik, isp, nband, emin)
           ib2 == Ib2(eigvals, ik, isp, nband, emin, emax)
           lastk == (ik + 1 = NK(eigvals))
           lasts == (isp + 1 = NS(eigvals))
       IN  /\ ib1 <= ib2
           /\ ib_win' = [ib_win EXCEPT ![ik][isp] = <<ib1, ib2>>]
           /\ ib_min' = NewIbMin(ib_min, ib1, ib2)
           /\ ib_max' = NewIbMax(ib_max, ib1, ib2)
           /\ ik' = IF lastk THEN 0 ELSE ik + 1
           /\ isp' = IF lastk THEN isp + 1 ELSE isp
           /\ pc' = IF lastk /\ lasts THEN "done" ELSE "loop"
           /\ result' = IF lastk /\ lasts THEN "ok" ELSE result
    /\ UNCHANGED <<eigvals, nband, emin, emax, err_ik, run, first>>
    /\ UNCHANGED <<groupVars, mapVars, matVars, projVars, orth_log, auxVars>>

\* select_bands is run again, with the same window, on the eigenvalues
\* restricted to the band range the first run selected
Rerun ==
    /\ pc = "done"
    /\ run = 1
    /\ first' = [ib_win |-> ib_win, ib_min |-> ib_min, ib_max |-> ib_max]
    /\ eigvals' = Windowed(eigvals, ib_min, ib_max)
    /\ nband' = ib_max - ib_min + 1
    /\ run' = 2
    /\ pc' = "check"
    /\ result' = "none"
    /\ ib_win' = NoWin
    /\ ib_min' = IbMinInit
    /\ ib_max' = 0
    /\ isp' = 0
    /\ ik' = 0
    /\ UNCHANGED <<emin, emax, err_ik>>
    /\ UNCHANGED <<groupVars, mapVars, matVars, projVars, orth_log, auxVars>>

Next == SanityFail \/ SanityPass \/ BandStepFail \/ BandStep \/ Rerun

Spec == Init /\ [][Next]_vars


\* ------------------------------------------------------------- claims
Pairs(e) == (DOMAIN e) \X (DOMAIN e[0])
Bands(e) == DOMAIN e[0][0]
Finished == pc \in {"done", "failed"}

\* bands of pair p whose energy lies inside [emin, emax]
InWindow(e, p) == {b \in Bands(e) : emin <= e[p[1]][p[2]][b] /\ e[p[1]][p[2]][b] <= emax}

\* C1: when select_bands returns, every (k-point, spin) pair has ib1 <= ib2,
\* ib_min is the minimum of ib1 and ib_max the maximum of ib2 over all pairs.
C1_WindowBounds ==
    pc = "done" =>
        /\ \A p \in Pairs(eigvals) : ib_win[p[1]][p[2]][1] <= ib_win[p[1]][p[2]][2]
        /\ \E p \in Pairs(eigvals) : ib_win[p[1]][p[2]][1] = ib_min
        /\ \A p \in Pairs(eigvals) : ib_min <= ib_win[p[1]][p[2]][1]
        /\ \E p \in Pairs(eigvals) : ib_win[p[1]][p[2]][2] = ib_max
        /\ \A p \in Pairs(eigvals) : ib_win[p[1]][p[2]][2] <= ib_max

\* two k-points: the first gives ib_min, the second ib_max, both windows wider
\* than one band
C1_Witness ==
    /\ pc = "done"
    /\ run = 1
    /\ NK(eigvals) = 2
    /\ ib_win[0][0][1] < ib_win[1][0][1]
    /\ ib_win[0][0][2] < ib_win[1][0][2]
    /\ ib_win[0][0][1] < ib_win[0][0][2]

\* C2 (as claimed): when select_bands returns, ib1 of every pair is the first
\* band with energy >= emin, and every band of [ib1, ib2] has energy >= emin.
C2_FirstBandAboveEmin ==
    pc = "done" =>
        \A p \in Pairs(eigvals) :
            LET en == eigvals[p[1]][p[2]]
                ib1 == ib_win[p[1]][p[2]][1]
                ib2 == ib_win[p[1]][p[2]][2]
            IN  /\ en[ib1] >= emin
                /\ \A b \in Bands(eigvals) : b < ib1 => en[b] < emin
                /\ \A b \in ib1 .. ib2 : en[b] >= emin

\* C3: when select_bands returns, ib2 of every pair is the last band with
\* energy <= emax (a band lying on emax included), and it is nband - 1 when no
\* band from ib1 on exceeds emax.
C3_LastBandBelowEmax ==
    pc = "done" =>
        \A p \in Pairs(eigvals) :
            LET en == eigvals[p[1]][p[2]]
                ib1 == ib_win[p[1]][p[2]][1]
                ib2 == ib_win[p[1]][p[2]][2]
            IN  /\ ib2 \in Bands(eigvals)
                /\ en[ib2] <= emax
                /\ \A b \in Bands(eigvals) : en[b] <= emax => b <= ib2
                /\ (\A b \in Bands(eigvals) : b >= ib1 => en[b] <= emax) => ib2 = nband - 1

\* one pair ends on a band lying exactly on emax with higher bands above it,
\* the other runs to the last band
C3_Witness ==
    /\ pc = "done"
    /\ run = 1
    /\ NK(eigvals) = 2
    /\ eigvals[0][0][ib_win[0][0][2]] = emax
    /\ ib_win[0][0][2] < nband - 1
    /\ ib_win[1][0][2] = nband - 1
    /\ eigvals[1][0][nband - 1] < emax

\* C4 (as claimed): a pair without any band inside [emin, emax] makes
\* select_bands fail with the empty-window error naming its k-point (the window
\* overlapping the spectrum as a whole, so that the sanity check has passed).
C4_EmptyPairFails ==
    (/\ Finished
     /\ ~WindowMismatch(eigvals, emin, emax)
     /\ \E p \in Pairs(eigvals) : InWindow(eigvals, p) = {})
    => /\ result = "EmptyWindow"
       /\ \E s \in DOMAIN eigvals[0] : InWindow(eigvals, <<err_ik, s>>) = {}

\* C5: select_bands fails with the window-mismatch error exactly when every
\* eigenvalue is below emin or every eigenvalue is above emax, and then no band
\* range has been computed.
C5_MismatchExactly ==
    pc # "check" =>
        /\ (result = "WindowMismatch") <=>
              \/ \A x \in AllEnergies(eigvals) : x < emin
              \/ \A x \in AllEnergies(eigvals) : x > emax
        /\ result = "WindowMismatch" => ib_win = NoWin /\ pc = "failed"

\* a window lying entirely above the spectrum
C5_Witness ==
    /\ result = "WindowMismatch"
    /\ emin <= emax
    /\ \A x \in AllEnergies(eigvals) : x < emin
    /\ NK(eigvals) = 2

\* C6 (as claimed): the second run, on the windowed eigenvalues, returns the
\* same ib_win, ib_min and ib_max as the first.
C6_SameWindow ==
    (run = 2 /\ Finished) =>
        /\ result = "ok"
        /\ ib_win = first.ib_win
        /\ ib_min = first.ib_min
        /\ ib_max = first.ib_max

\* C6 (amended): the second run returns the first window counted from the
\* first band of the windowed array: every ib1 and ib2 lowered by the first
\* ib_min, ib_min = 0 and ib_max = first ib_max - first ib_min.
C6_ShiftedWindow ==
    (run = 2 /\ Finished) =>
        /\ result = "ok"
        /\ \A p \in Pairs(eigvals) :
              ib_win[p[1]][p[2]] = <<first.ib_win[p[1]][p[2]][1] - first.ib_min,
                                     first.ib_win[p[1]][p[2]][2] - first.ib_min>>
        /\ ib_min = 0
        /\ ib_max = first.ib_max - first.ib_min

\* the second run has returned and the first window did not start at band 0
C6_Witness ==
    /\ run = 2
    /\ pc = "done"
    /\ first.ib_min > 0
    /\ first.ib_min < first.ib_max


\* ------------------------------------------------- get_block_matrix_map
\* nion, ns, nk, nlm, nb_max = _shell.proj_win.shape
ShellNion(sh, ish) == sh[ish].nion
ShellNlm(sh, ish) == sh[ish].nlm

Block(i1, i2, ish, ion) == [bmat_range |-> <<i1, i2>>, shell_ion |-> <<ish, ion>>]

\* ndim taken from the shell at hand instead of the maximum so far
NormionNdimLast(nd, nlm) == nlm

\* ndim = max(ndim, nlm)
NormionNdim(nd, nlm) == Max2(nd, nlm)

\* for ion in xrange(nion): one single-block map [0, nlm) per site
NormionIons(ish, nion, nlm) ==
    [j \in 1 .. nion |-> <<Block(0, nlm, ish, j - 1)>>]

\* for ish in self.ishells (normion branch), from the i-th shell of the list on
RECURSIVE NormionLoop(_, _, _, _, _)
NormionLoop(sh, isl, i, maps, nd) ==
    IF i > Len(isl) THEN [block_maps |-> maps, ndim |-> nd]
    ELSE LET ish == isl[i]
         IN  NormionLoop(sh, isl, i + 1,
                         maps \o NormionIons(ish, ShellNion(sh, ish), ShellNlm(sh, ish)),
                         NormionNdim(nd, ShellNlm(sh, ish)))

\* a start of the next range that stays where it was
NextStartStuck(i1, i2) == i1

\* i1_bl = i2_bl
NextStart(i1, i2) == i2

\* for ion in xrange(nion) (group-wide branch), from site ion on;
\* st = [bl_map, i1_bl, i2_bl]
RECURSIVE GroupIons(_, _, _, _, _)
GroupIons(st, ish, ion, nion, nlm) ==
    IF ion >= nion THEN st
    ELSE LET i2 == st.i1_bl + nlm
         IN  GroupIons([bl_map |-> Append(st.bl_map, Block(st.i1_bl, i2, ish, ion)),
                        i1_bl |-> NextStart(st.i1_bl, i2),
                        i2_bl |-> i2],
                       ish, ion + 1, nion, nlm)

\* for ish in self.ishells (group-wide branch), from the i-th shell of the list on
RECURSIVE GroupLoop(_, _, _, _)
GroupLoop(sh, isl, i, st) ==
    IF i > Len(isl) THEN st
    ELSE GroupLoop(sh, isl, i + 1,
                   GroupIons(st, isl[i], 0, ShellNion(sh, isl[i]), ShellNlm(sh, isl[i])))

\* get_block_matrix_map(): [block_maps, ndim]
GetBlockMatrixMap(nrm, isl, sh) ==
    IF nrm
    THEN NormionLoop(sh, isl, 1, <<>>, 0)
    ELSE LET st == GroupLoop(sh, isl, 1, [bl_map |-> <<>>, i1_bl |-> 0, i2_bl |-> 0])
         IN  [block_maps |-> <<st.bl_map>>, ndim |-> st.i2_bl]

\* inputs: the shapes of the shells and the shell lists of a group (one or more
\* shells, none twice)
ShellIds == 0 .. NShell - 1
ShellDims == [nion : 1 .. MaxIon, nlm : 1 .. MaxLm]
RECURSIVE ShellLists(_)
ShellLists(n) ==
    IF n = 0 THEN {<<>>}
    ELSE {Append(l, x) : l \in ShellLists(n - 1), x \in ShellIds}
IShellLists ==
    {l \in UNION {ShellLists(n) : n \in 1 .. NShell} :
        \A i, j \in 1 .. Len(l) : i # j => l[i] # l[j]}

InitMap ==
    /\ pc = "start"
    /\ result = "none"
    /\ shells \in [ShellIds -> ShellDims]
    /\ ishells \in IShellLists
    /\ normion \in BOOLEAN
    /\ ortho = FALSE
    /\ nb_max = 0
    /\ BandIdle
    /\ MapIdle
    /\ MatIdle
    /\ ProjIdle
    /\ LogIdle
    /\ AuxIdle

\* a call of get_block_matrix_map()
BuildMap ==
    /\ pc = "start"
    /\ LET r == GetBlockMatrixMap(normion, ishells, shells)
       IN  block_maps' = r.block_maps /\ ndim' = r.ndim
    /\ pc' = "done"
    /\ result' = "ok"
    /\ UNCHANGED <<bandVars, groupVars, matVars, projVars, orth_log, auxVars>>

NextMap == BuildMap

SpecMap == InitMap /\ [][NextMap]_vars

\* the (shell, site) pairs of the group before the i-th shell of the list, and
\* the orbitals of all the pairs of the first i shells
RECURSIVE PairsBefore(_)
PairsBefore(i) == IF i <= 1 THEN 0 ELSE PairsBefore(i - 1) + shells[ishells[i - 1]].nion
RECURSIVE OrbitalsUpTo(_)
OrbitalsUpTo(i) ==
    IF i <= 0 THEN 0
    ELSE OrbitalsUpTo(i - 1) + shells[ishells[i]].nion * shells[ishells[i]].nlm
NPairs == PairsBefore(Len(ishells) + 1)
\* place of the pair (i-th shell of the list, site ion) in shell order, then site order
PairPos(i, ion) == PairsBefore(i) + ion + 1

\* C7: with normion = false there is exactly one block map; it holds one block
\* per (shell, site) pair in the order of the shell list and then of the sites;
\* the row ranges start at 0, follow each other without gap or overlap, each is
\* as long as its shell's nlm, and ndim is the sum of nlm over all the pairs.
C7_GroupWideMap ==
    (pc = "done" /\ ~normion) =>
        /\ Len(block_maps) = 1
        /\ LET bm == block_maps[1]
           IN  /\ Len(bm) = NPairs
               /\ \A i \in 1 .. Len(ishells) : \A ion \in 0 .. shells[ishells[i]].nion - 1 :
                     LET b == bm[PairPos(i, ion)]
                     IN  /\ b.shell_ion = <<ishells[i], ion>>
                         /\ b.bmat_range[2] - b.bmat_range[1] = shells[ishells[i]].nlm
               /\ bm[1].bmat_range[1] = 0
               /\ \A j \in 1 .. Len(bm) - 1 : bm[j + 1].bmat_range[1] = bm[j].bmat_range[2]
               /\ ndim = bm[Len(bm)].bmat_range[2]
        /\ ndim = OrbitalsUpTo(Len(ishells))

\* two shells listed in the order 1, 0, with different nlm, the first listed
\* with two sites
C7_Witness ==
    /\ pc = "done"
    /\ ~normion
    /\ ishells = <<1, 0>>
    /\ shells[1].nion = 2
    /\ shells[1].nlm # shells[0].nlm
    /\ Len(block_maps) = 1
    /\ Len(block_maps[1]) > 2

\* C8: with normion = true there is one block map per (shell, site) pair of the
\* shells of the list, each holding the single block [0, nlm) of that shell
\* owned by that pair, and ndim is the largest nlm of the shells of the list.
C8_PerSiteMaps ==
    (pc = "done" /\ normion) =>
        /\ Len(block_maps) = NPairs
        /\ \A i \in 1 .. Len(ishells) : \A ion \in 0 .. shells[ishells[i]].nion - 1 :
              block_maps[PairPos(i, ion)] =
                  <<[bmat_range |-> <<0, shells[ishells[i]].nlm>>,
                     shell_ion |-> <<ishells[i], ion>>]>>
        /\ \E i \in 1 .. Len(ishells) : ndim = shells[ishells[i]].nlm
        /\ \A i \in 1 .. Len(ishells) : shells[ishells[i]].nlm <= ndim

\* two shells, the one listed first with more orbitals than the one listed last
C8_Witness ==
    /\ pc = "done"
    /\ normion
    /\ Len(ishells) = 2
    /\ shells[ishells[1]].nlm > shells[ishells[2]].nlm
    /\ shells[ishells[2]].nion = 2
    /\ Len(block_maps) > 2


\* ------------------------------------------- orthogonalize_projector_matrix
\* Projector coefficients are small real integers.  An entry of an
\* orthogonalized matrix is not computed: it is kept as the term "entry (r, c)
\* of the orthogonalization of matrix src".
ProjValues == {-1, 0, 1}
Raw(v) == [kind |-> "raw", val |-> v, src |-> <<>>, r |-> 0, c |-> 0]
OrthEntry(P, row, col) == [kind |-> "orth", val |-> 0, src |-> P, r |-> row, c |-> col]
Num(x) == x.val

NRows(P) == Cardinality(DOMAIN P)
NCols(P) == Cardinality(DOMAIN P[0])

\* sum of f[0] .. f[n - 1]
RECURSIVE SumTo(_, _)
SumTo(f, n) == IF n = 0 THEN 0 ELSE SumTo(f, n - 1) + f[n - 1]

\* overlap = np.dot(p_matrix, p_matrix.conj().T)
Overlap(P) ==
    [i \in DOMAIN P |-> [j \in DOMAIN P |->
        SumTo([v \in DOMAIN P[0] |-> Num(P[i][v]) * Num(P[j][v])], NCols(P))]]

\* determinant of the n x n matrix M (expansion along row 0)
RECURSIVE Det(_, _)
Det(M, n) ==
    IF n = 0 THEN 1
    ELSE IF n = 1 THEN M[0][0]
    ELSE SumTo([j \in 0 .. n - 1 |->
                   (IF j % 2 = 0 THEN 1 ELSE -1) * M[0][j] *
                   Det([a \in 0 .. n - 2 |-> [b \in 0 .. n - 2 |->
                           M[a + 1][IF b < j THEN b ELSE b + 1]]], n - 1)], n)

\* a check that lets a zero eigenvalue pass
AllEigNonNegative(O) == \A k \in 1 .. NRows(O) : Det(O, k) >= 0

\* eig, eigv = np.linalg.eigh(overlap); np.all(eig > 0.0)
\* The eigenvalues of a Hermitian matrix are all positive exactly when its
\* leading principal minors are all positive; decided in exact arithmetic.
AllEigPositive(O) == \A k \in 1 .. NRows(O) : Det(O, k) > 0

\* orthogonalize_projector_matrix(p_matrix): ok = FALSE when the assertion fails
OrthogonalizeProjectorMatrix(P) ==
    IF AllEigPositive(Overlap(P))
    THEN [ok |-> TRUE,
          p_ortho |-> [i \in DOMAIN P |-> [v \in DOMAIN P[0] |-> OrthEntry(P, i, v)]]]
    ELSE [ok |-> FALSE, p_ortho |-> <<>>]

Matrices(nm, nb) == [0 .. nm - 1 -> [0 .. nb - 1 -> {Raw(v) : v \in ProjValues}]]

InitMat ==
    /\ pc = "start"
    /\ result = "none"
    /\ p_mat \in UNION {Matrices(nm, nb) : nm \in 1 .. MaxNm, nb \in 1 .. MaxNb}
    /\ p_orth = <<>>
    /\ BandIdle
    /\ GroupIdle
    /\ MapIdle
    /\ ProjIdle
    /\ LogIdle
    /\ AuxIdle

\* orthogonalize_projector_matrix(p_mat) returns
OrthMatrix ==
    /\ pc = "start"
    /\ LET res == OrthogonalizeProjectorMatrix(p_mat)
       IN  /\ res.ok
           /\ p_orth' = res.p_ortho
    /\ pc' = "done"
    /\ result' = "ok"
    /\ UNCHANGED <<bandVars, groupVars, mapVars, projVars, p_mat, orth_log, auxVars>>

\* orthogonalize_projector_matrix(p_mat) fails on its assertion
OrthMatrixFail ==
    /\ pc = "start"
    /\ ~OrthogonalizeProjectorMatrix(p_mat).ok
    /\ pc' = "failed"
    /\ result' = "IllConditioned"
    /\ UNCHANGED <<bandVars, groupVars, mapVars, projVars, p_mat, p_orth, orth_log, auxVars>>

NextMat == OrthMatrix \/ OrthMatrixFail

SpecMat == InitMat /\ [][NextMat]_vars

\* coefficient vectors x, and x^H O x for O = P P^H, taken from P itself as
\* the squared length of the combination sum_m x[m] P[m]
CoefVectors(P) == [DOMAIN P -> 1 - MaxNm .. MaxNm - 1]
QuadForm(P, x) ==
    SumTo([v \in DOMAIN P[0] |->
              SumTo([m \in DOMAIN P |-> x[m] * Num(P[m][v])], NRows(P)) *
              SumTo([m \in DOMAIN P |-> x[m] * Num(P[m][v])], NRows(P))], NCols(P))
\* O has an eigenvalue that is zero or negative: x^H O x <= 0 for some x # 0
HasNonPositiveEig(P) ==
    \E x \in CoefVectors(P) : (\E m \in DOMAIN P : x[m] # 0) /\ QuadForm(P, x) <= 0

\* C10: orthogonalize_projector_matrix fails with the ill-conditioned error,
\* returning no matrix, exactly when the overlap P P^H has an eigenvalue that
\* is zero or negative (in particular with two identical rows, or with more
\* rows than bands); otherwise it returns a matrix of the shape of P.
C10_IllConditionedFails ==
    pc # "start" =>
        /\ result = (IF HasNonPositiveEig(p_mat) THEN "IllConditioned" ELSE "ok")
        /\ result = "IllConditioned" => p_orth = <<>> /\ pc = "failed"
        /\ result = "ok" => DOMAIN p_orth = DOMAIN p_mat /\ pc = "done"
        /\ (\E i, j \in DOMAIN p_mat : i # j /\ p_mat[i] = p_mat[j]) => result = "IllConditioned"
        /\ NRows(p_mat) > NCols(p_mat) => result = "IllConditioned"

\* two identical rows that are not zero
C10_Witness ==
    /\ result = "IllConditioned"
    /\ NRows(p_mat) = 2
    /\ NCols(p_mat) = 2
    /\ p_mat[0] = p_mat[1]
    /\ \A v \in DOMAIN p_mat[0] : Num(p_mat[0][v]) # 0


\* ----------------------------------------------------------- orthogonalize
\* a slice bound taken as it is, beyond the end of the axis as well
SliceLenUnclipped(stop, size) == stop
\* length of the slice [:stop] of an axis of the given size
SliceLen(stop, size) == Min2(stop, size)

\* a target of shape (drows, dcols) can be assigned a value of shape
\* (srows, scols): equal, or stretched from length 1
Assignable(drows, dcols, srows, scols) ==
    /\ (srows = drows \/ srows = 1)
    /\ (scols = dcols \/ scols = 1)

\* np.zeros((ndim, self.nb_max)); p_mat[:, :] = 0.0j
ZeroMat(nd, nbm) == [i \in 0 .. nd - 1 |-> [v \in 0 .. nbm - 1 |-> Raw(0)]]
\* the scratch matrix taken over as the last pass left it
NotCleaned(pm) == pm
Cleaned(pm) == ZeroMat(NRows(pm), NCols(pm))

\* nb = self.ib_win[ik, isp, 1] - self.ib_win[ik, isp, 0] + 1
BandCount(win, k, sp) == win[k][sp][2] - win[k][sp][1] + 1

\* nlm = i2 - i1 + 1
SliceNlm(i1, i2) == i2 - i1 + 1

\* p_mat[i1:i2, :nb] = shell.proj_win[ion, isp, ik, :nlm, :nb]
GatherBlock(pm, pw, sh, blk, sp, k, nb) ==
    LET i1 == blk.bmat_range[1]
        i2 == blk.bmat_range[2]
        ish == blk.shell_ion[1]
        ion == blk.shell_ion[2]
        nlm == SliceNlm(i1, i2)
        srows == SliceLen(nlm, ShellNlm(sh, ish))
        scols == SliceLen(nb, NCols(pm))
        drows == Max2(SliceLen(i2, NRows(pm)) - i1, 0)
        dcols == SliceLen(nb, NCols(pm))
    IN  IF Assignable(drows, dcols, srows, scols)
        THEN [ok |-> TRUE,
              p_mat |-> [i \in DOMAIN pm |-> [v \in DOMAIN pm[i] |->
                  IF i1 <= i /\ i < i1 + drows /\ v < dcols
                  THEN pw[ish][ion][sp][k][IF srows = 1 THEN 0 ELSE i - i1]
                                          [IF scols = 1 THEN 0 ELSE v]
                  ELSE pm[i][v]]]]
        ELSE [ok |-> FALSE, p_mat |-> pm]

\* for ibl, block in enumerate(bl_map): the gathering loop, from block j on
RECURSIVE GatherLoop(_, _, _, _, _, _, _, _)
GatherLoop(pm, pw, sh, bl_map, j, sp, k, nb) ==
    IF j > Len(bl_map) THEN [ok |-> TRUE, p_mat |-> pm]
    ELSE LET g == GatherBlock(pm, pw, sh, bl_map[j], sp, k, nb)
         IN  IF g.ok THEN GatherLoop(g.p_mat, pw, sh, bl_map, j + 1, sp, k, nb)
             ELSE g

\* ibl_max = i2: the upper bound of the last block gathered
IblMax(bl_map) == bl_map[Len(bl_map)].bmat_range[2]

\* p_mat[:ibl_max, :nb]
SubMatrix(pm, rows, cols) ==
    [i \in 0 .. SliceLen(rows, NRows(pm)) - 1 |->
        [v \in 0 .. SliceLen(cols, NCols(pm)) - 1 |-> pm[i][v]]]

\* rows of p_orth counted from 0 for every block
ScatterFromTop(i1) == 0

\* the first row of p_orth[i1:i2, :nb]
ScatterFrom(i1) == i1

\* shell.proj_win[ion, isp, ik, :nlm, :nb] = p_orth[i1:i2, :nb]
ScatterBlock(pw, po, sh, nbm, blk, sp, k, nb) ==
    LET i1 == blk.bmat_range[1]
        i2 == blk.bmat_range[2]
        ish == blk.shell_ion[1]
        ion == blk.shell_ion[2]
        nlm == SliceNlm(i1, i2)
        drows == SliceLen(nlm, ShellNlm(sh, ish))
        dcols == SliceLen(nb, nbm)
        srows == Max2(SliceLen(i2, NRows(po)) - i1, 0)
        scols == SliceLen(nb, NCols(po))
        from == ScatterFrom(i1)
    IN  IF Assignable(drows, dcols, srows, scols)
        THEN [ok |-> TRUE,
              proj_win |-> [pw EXCEPT ![ish][ion][sp][k] =
                  [m \in DOMAIN @ |-> [v \in DOMAIN @[m] |->
                      IF m < drows /\ v < dcols
                      THEN po[IF srows = 1 THEN from ELSE from + m][IF scols = 1 THEN 0 ELSE v]
                      ELSE @[m][v]]]]]
        ELSE [ok |-> FALSE, proj_win |-> pw]

\* for ibl, block in enumerate(bl_map): the distributing loop, from block j on
RECURSIVE ScatterLoop(_, _, _, _, _, _, _, _, _)
ScatterLoop(pw, po, sh, nbm, bl_map, j, sp, k, nb) ==
    IF j > Len(bl_map) THEN [ok |-> TRUE, proj_win |-> pw]
    ELSE LET s == ScatterBlock(pw, po, sh, nbm, bl_map[j], sp, k, nb)
         IN  IF s.ok THEN ScatterLoop(s.proj_win, po, sh, nbm, bl_map, j + 1, sp, k, nb)
             ELSE s

\* one pass of the body of 'for bl_map in block_maps':
\* [err, p_mat, p_orth, proj_win], err = "" when the pass completes
BlockPass(pm, pw, sh, nbm, bl_map, sp, k, nb) ==
    LET g == GatherLoop(Cleaned(pm), pw, sh, bl_map, 1, sp, k, nb)
        o == OrthogonalizeProjectorMatrix(SubMatrix(g.p_mat, IblMax(bl_map), nb))
        s == ScatterLoop(pw, o.p_ortho, sh, nbm, bl_map, 1, sp, k, nb)
    IN  IF ~g.ok
        THEN [err |-> "ShapeError", gathered |-> FALSE, p_mat |-> g.p_mat, p_orth |-> <<>>,
              proj_win |-> pw]
        ELSE IF ~o.ok
             THEN [err |-> "IllConditioned", gathered |-> TRUE, p_mat |-> g.p_mat,
                   p_orth |-> <<>>, proj_win |-> pw]
        ELSE IF ~s.ok
             THEN [err |-> "ShapeError", gathered |-> TRUE, p_mat |-> g.p_mat,
                   p_orth |-> o.p_ortho, proj_win |-> s.proj_win]
        ELSE [err |-> "", gathered |-> TRUE, p_mat |-> g.p_mat, p_orth |-> o.p_ortho,
              proj_win |-> s.proj_win]

\* the pass leaves orthogonalize() by an exception: nothing catches it
RaisedNever(r) == FALSE
Raised(r) == r.err # ""

\* if not self.ortho: return
QuickExitNever(o) == FALSE
QuickExit(o) == ~o

\* the record kept of one call of orthogonalize_projector_matrix: the matrix
\* handed over, p_mat[:ibl_max, :nb], and the loop counters of the call
OrthCall(pm, bl_map, sp, k, bmi, nb) ==
    [P |-> SubMatrix(pm, IblMax(bl_map), nb), isp |-> sp, ik |-> k, ibm |-> bmi]

\* inputs of orthogonalize(): a constructed group.  Two shells; every orbital
\* row of a site is a unit vector over the nb_max stored bands, cut to the
\* bands of the (k-point, spin) at hand and zero beyond them.
OrthoShellIds == {0, 1}
OrthoShellDims == {[nion |-> 1, nlm |-> 1], [nion |-> 2, nlm |-> 1], [nion |-> 1, nlm |-> 2]}
OrthoShellLists == {<<0>>, <<1>>, <<0, 1>>, <<1, 0>>}
OrthoWindows == {<<0, 0>>, <<0, 1>>, <<1, 1>>}
OrthoWins ==
    UNION {[0 .. sh[1] - 1 -> [0 .. sh[2] - 1 -> OrthoWindows]] : sh \in Shapes}
WinMin(win) ==
    CHOOSE x \in {win[k][s][1] : k \in DOMAIN win, s \in DOMAIN win[0]} :
        \A k \in DOMAIN win, s \in DOMAIN win[0] : x <= win[k][s][1]
WinMax(win) ==
    CHOOSE x \in {win[k][s][2] : k \in DOMAIN win, s \in DOMAIN win[0]} :
        \A k \in DOMAIN win, s \in DOMAIN win[0] : win[k][s][2] <= x
OrbitalRows(sh) ==
    {row \in OrthoShellIds \X (0 .. MaxIon - 1) \X (0 .. MaxLm - 1) :
        row[2] < sh[row[1]].nion /\ row[3] < sh[row[1]].nlm}
\* the storage select_projectors leaves: the bands of the window first, zeros after
Storage(sh, win, nbm, col) ==
    [ish \in DOMAIN sh |-> [ion \in 0 .. sh[ish].nion - 1 |->
        [sp \in DOMAIN win[0] |-> [k \in DOMAIN win |->
            [m \in 0 .. sh[ish].nlm - 1 |-> [v \in 0 .. nbm - 1 |->
                Raw(IF v = col[<<ish, ion, m>>] /\ v < BandCount(win, k, sp)
                    THEN 1 ELSE 0)]]]]]]

InitOrtho ==
    /\ pc = "start"
    /\ result = "none"
    /\ shells \in [OrthoShellIds -> OrthoShellDims]
    /\ ishells \in OrthoShellLists
    /\ normion \in BOOLEAN
    /\ ortho \in BOOLEAN
    /\ ib_win \in OrthoWins
    /\ ib_min = WinMin(ib_win)
    /\ ib_max = WinMax(ib_win)
    /\ nb_max = ib_max - ib_min + 1
    /\ \E col \in [OrbitalRows(shells) -> 0 .. nb_max - 1] :
          proj_win = Storage(shells, ib_win, nb_max, col)
    /\ proj0 = proj_win
    /\ ibm = 0
    /\ isp = 0
    /\ ik = 0
    /\ eigvals = <<>>
    /\ nband = 0
    /\ emin = 0
    /\ emax = 0
    /\ err_ik = -1
    /\ run = 1
    /\ first = NoWin
    /\ MapIdle
    /\ MatIdle
    /\ LogIdle
    /\ AuxIdle

\* orthogonalize() with self.ortho false: the quick exit
OrthoSkip ==
    /\ pc = "start"
    /\ QuickExit(ortho)
    /\ pc' = "done"
    /\ result' = "ok"
    /\ UNCHANGED <<bandVars, groupVars, mapVars, matVars, projVars, orth_log, auxVars>>

\* orthogonalize() up to the loops: the block maps and the scratch matrix
OrthoBegin ==
    /\ pc = "start"
    /\ ~QuickExit(ortho)
    /\ LET r == GetBlockMatrixMap(normion, ishells, shells)
       IN  /\ block_maps' = r.block_maps
           /\ ndim' = r.ndim
           /\ p_mat' = ZeroMat(r.ndim, nb_max)
    /\ isp' = 0
    /\ ik' = 0
    /\ ibm' = 1
    /\ pc' = "loop"
    /\ UNCHANGED <<eigvals, nband, emin, emax, ib_win, ib_min, ib_max, err_ik, run, first>>
    /\ UNCHANGED <<result, groupVars, p_orth, proj_win, proj0, orth_log, auxVars>>

\* one pass of the body of 'for bl_map in block_maps' that completes; the last
\* one returns
OrthoBlock ==
    /\ pc = "loop"
    /\ LET r == BlockPass(p_mat, proj_win, shells, nb_max, block_maps[ibm], isp, ik,
                          BandCount(ib_win, ik, isp))
           lastb == (ibm = Len(block_maps))
           lastk == (ik + 1 = NK(ib_win))
           lasts == (isp + 1 = NS(ib_win))
       IN  /\ ~Raised(r)
           /\ orth_log' = Append(orth_log, OrthCall(r.p_mat, block_maps[ibm], isp, ik, ibm,
                                                     BandCount(ib_win, ik, isp)))
           /\ p_mat' = r.p_mat
           /\ p_orth' = r.p_orth
           /\ proj_win' = r.proj_win
           /\ ibm' = IF lastb THEN 1 ELSE ibm + 1
           /\ ik' = IF ~lastb THEN ik ELSE IF lastk THEN 0 ELSE ik + 1
           /\ isp' = IF lastb /\ lastk THEN isp + 1 ELSE isp
           /\ pc' = IF lastb /\ lastk /\ lasts THEN "done" ELSE "loop"
           /\ result' = IF lastb /\ lastk /\ lasts THEN "ok" ELSE result
    /\ UNCHANGED <<eigvals, nband, emin, emax, ib_win, ib_min, ib_max, err_ik, run, first>>
    /\ UNCHANGED <<groupVars, mapVars, proj0, auxVars>>

\* one pass of the body of 'for bl_map in block_maps' that raises
OrthoBlockFail ==
    /\ pc = "loop"
    /\ LET r == BlockPass(p_mat, proj_win, shells, nb_max, block_maps[ibm], isp, ik,
                          BandCount(ib_win, ik, isp))
       IN  /\ Raised(r)
           /\ orth_log' = IF r.gathered
                           THEN Append(orth_log, OrthCall(r.p_mat, block_maps[ibm], isp, ik, ibm,
                                                          BandCount(ib_win, ik, isp)))
                           ELSE orth_log
           /\ p_mat' = r.p_mat
           /\ p_orth' = r.p_orth
           /\ proj_win' = r.proj_win
           /\ result' = r.err
    /\ pc' = "failed"
    /\ UNCHANGED <<bandVars, groupVars, mapVars, proj0, ibm, auxVars>>

NextOrtho == OrthoSkip \/ OrthoBegin \/ OrthoBlock \/ OrthoBlockFail

SpecOrtho == InitOrtho /\ [][NextOrtho]_vars

\* the shell is one of the group's shell list
InGroup(ish) == \E i \in 1 .. Len(ishells) : ishells[i] = ish
\* the place <<block map, block>> of the block descriptor owned by (ish, ion)
BlockPlace(ish, ion) ==
    CHOOSE pl \in (1 .. Len(block_maps)) \X (1 .. NPairs) :
        /\ pl[2] <= Len(block_maps[pl[1]])
        /\ block_maps[pl[1]][pl[2]].shell_ion = <<ish, ion>>
\* the pass for (spin sp, k-point k, block map bmi) has completed
Processed(sp, k, bmi) ==
    \/ pc = "done"
    \/ /\ pc \in {"loop", "failed"}
       /\ \/ sp < isp
          \/ sp = isp /\ k < ik
          \/ sp = isp /\ k = ik /\ bmi < ibm

\* C9: with ortho true, an entry of the shells' storage is changed exactly when
\* it belongs to a site of a shell of the group, lies in the band columns
\* 0 .. nb - 1 of its (k-point, spin) and its block map has been processed for
\* that (k-point, spin); it then holds the orthogonalized value of block-matrix
\* row i1 + ilm and the same band column, the place its old value was gathered
\* to.  The zero padding in columns nb .. nb_max - 1 and the shells outside the
\* group keep their values.
C9_WriteBackInPlace ==
    (ortho /\ pc # "start") =>
        /\ result # "ShapeError"
        /\ \A ish \in DOMAIN shells : \A ion \in DOMAIN proj_win[ish] :
           \A sp \in DOMAIN ib_win[0] : \A k \in DOMAIN ib_win :
           \A m \in DOMAIN proj_win[ish][ion][sp][k] : \A v \in 0 .. nb_max - 1 :
              LET x == proj_win[ish][ion][sp][k][m][v]
                  x0 == proj0[ish][ion][sp][k][m][v]
              IN  IF /\ InGroup(ish)
                     /\ v < BandCount(ib_win, k, sp)
                     /\ Processed(sp, k, BlockPlace(ish, ion)[1])
                  THEN LET pl == BlockPlace(ish, ion)
                           i1 == block_maps[pl[1]][pl[2]].bmat_range[1]
                       IN  /\ x.kind = "orth"
                           /\ x.r = i1 + m
                           /\ x.c = v
                           /\ x.src[i1 + m][v] = x0
                  ELSE x = x0

\* orthogonalize() has returned for a group of one shell with two sites,
\* orthogonalized per site, another shell being outside the group and one
\* k-point having fewer bands than nb_max
C9_Witness ==
    /\ pc = "done"
    /\ ortho
    /\ normion
    /\ ishells = <<1>>
    /\ shells[1].nion = 2
    /\ NK(ib_win) = 2
    /\ nb_max = 2
    /\ BandCount(ib_win, 0, 0) = 1
    /\ BandCount(ib_win, 1, 0) = 2
    /\ proj_win[1][1][0][0][0][0].kind = "orth"

\* orthogonalize() has returned for a group of two shells orthogonalized
\* together, the second block starting at row 1 or 2
C9_GroupWideReached ==
    /\ pc = "done"
    /\ ortho
    /\ ~normion
    /\ ishells = <<1, 0>>
    /\ proj_win[0][0][0][0][0][0].kind = "orth"


\* ------------------------------------------------------------ nelect_window
\* occupations and weights are integers here: one unit is a fully occupied
\* band, respectively the weight of a k-point of a one-point mesh

\* rspin = 1.0 whatever the number of spin channels
RspinOne(ns_band) == 1

\* rspin = 2.0 if ns_band == 1 else 1.0
Rspin(ns_band) == IF ns_band = 1 THEN 2 ELSE 1

\* the slice stops at the last band of the window, leaving it out
SliceStopExclusive(ib2) == ib2

\* ib2 = self.ib_win[ik, isp, 1]+1
SliceStop(ib2) == ib2 + 1

\* occ.sum() for occ = el_struct.ferw[isp, ik, ib1:ib2]
RECURSIVE OccSum(_, _, _)
OccSum(occ, ib1, ib2) ==
    IF ib1 >= SliceLen(ib2, Cardinality(DOMAIN occ)) THEN 0
    ELSE occ[ib1] + OccSum(occ, ib1 + 1, ib2)

\* occ.sum() * kwght * rspin for the pair (isp, ik)
NelectTerm(occs, kw, win, sp, k) ==
    OccSum(occs[sp][k], win[k][sp][1], SliceStop(win[k][sp][2])) * kw[k] * Rspin(NS(win))

\* inputs: windows of a group, occupations filled from the lowest band up to a
\* level, k-point weights
NelectWindows == {<<0, 0>>, <<0, 1>>, <<1, 1>>, <<1, 2>>, <<0, 2>>}
NelectWins ==
    UNION {[0 .. sh[1] - 1 -> [0 .. sh[2] - 1 -> NelectWindows]] : sh \in Shapes}
Filled(level) == [b \in 0 .. NBand - 1 |-> IF b < level THEN 1 ELSE 0]
Occupations == {Filled(level) : level \in 0 .. NBand}
KWeights == {1, 2}

InitNelect ==
    /\ pc = "start"
    /\ result = "none"
    /\ ib_win \in NelectWins
    /\ nband = NBand
    /\ ferw \in [DOMAIN ib_win[0] -> [DOMAIN ib_win -> Occupations]]
    /\ kweights \in [DOMAIN ib_win -> KWeights]
    /\ nelect \in {0, 1}    \* what an earlier call may have left
    /\ isp = 0
    /\ ik = 0
    /\ ib_min = WinMin(ib_win)
    /\ ib_max = WinMax(ib_win)
    /\ eigvals = <<>>
    /\ emin = 0
    /\ emax = 0
    /\ err_ik = -1
    /\ run = 1
    /\ first = NoWin
    /\ GroupIdle
    /\ MapIdle
    /\ MatIdle
    /\ ProjIdle
    /\ LogIdle
    /\ CallsIdle
    /\ MsgIdle

\* self.nelect = 0 and the set-up of the loops
NelectBegin ==
    /\ pc = "start"
    /\ nelect' = 0
    /\ isp' = 0
    /\ ik' = 0
    /\ pc' = "loop"
    /\ UNCHANGED <<eigvals, nband, emin, emax, ib_win, ib_min, ib_max, err_ik, run, first>>
    /\ UNCHANGED <<result, groupVars, mapVars, matVars, projVars, orth_log>>
    /\ UNCHANGED <<ferw, kweights, calls, msgVars>>

\* one pass of the body of 'for ik in xrange(nk)'; the last one returns
NelectStep ==
    /\ pc = "loop"
    /\ nelect' = nelect + NelectTerm(ferw, kweights, ib_win, isp, ik)
    /\ LET lastk == (ik + 1 = NK(ib_win))
           lasts == (isp + 1 = NS(ib_win))
       IN  /\ ik' = IF lastk THEN 0 ELSE ik + 1
           /\ isp' = IF lastk THEN isp + 1 ELSE isp
           /\ pc' = IF lastk /\ lasts THEN "done" ELSE "loop"
           /\ result' = IF lastk /\ lasts THEN "ok" ELSE result
    /\ UNCHANGED <<eigvals, nband, emin, emax, ib_win, ib_min, ib_max, err_ik, run, first>>
    /\ UNCHANGED <<groupVars, mapVars, matVars, projVars, orth_log>>
    /\ UNCHANGED <<ferw, kweights, calls, msgVars>>

NextNelect == NelectBegin \/ NelectStep

SpecNelect == InitNelect /\ [][NextNelect]_vars

\* the sum of the values of f over the finite set S
RECURSIVE SumOver(_, _)
SumOver(S, f) ==
    IF S = {} THEN 0
    ELSE LET x == CHOOSE y \in S : TRUE IN f[x] + SumOver(S \ {x}, f)

\* the (spin, k-point, band) triples of the occupations
OccTriples == {t \in (DOMAIN ferw) \X (DOMAIN kweights) \X (0 .. nband - 1) : TRUE}
\* band t[3] lies in the window of the pair (spin t[1], k-point t[2])
InPairWindow(t) == ib_win[t[2]][t[1]][1] <= t[3] /\ t[3] <= ib_win[t[2]][t[1]][2]

\* C12: nelect_window returns the sum over all (spin, k-point) pairs of the
\* occupations of the bands ib1 .. ib2 (both included) of the pair's window,
\* times the weight of the k-point, times rspin, which is 2 with one spin
\* channel and 1 otherwise; a band outside the window contributes nothing.
C12_WindowedElectronCount ==
    pc = "done" =>
        nelect = SumOver(OccTriples,
                         [t \in OccTriples |->
                             IF InPairWindow(t)
                             THEN ferw[t[1]][t[2]][t[3]] * kweights[t[2]]
                                      * (IF Cardinality(DOMAIN ferw) = 1 THEN 2 ELSE 1)
                             ELSE 0])

\* two k-points of different weights, an occupied band below one window and
\* one above the other
C12_Witness ==
    /\ pc = "done"
    /\ NK(ib_win) = 2
    /\ NS(ib_win) = 1
    /\ kweights[0] = 1
    /\ kweights[1] = 2
    /\ ib_win[0][0] = <<1, 2>>
    /\ ib_win[1][0] = <<0, 1>>
    /\ ferw[0][0] = Filled(NBand)
    /\ ferw[0][1] = Filled(NBand)
    /\ nelect = 12

\* one k-point of weight 1, one spin channel, every band fully occupied
TrivialSystem ==
    /\ NK(ib_win) = 1
    /\ NS(ib_win) = 1
    /\ kweights[0] = 1
    /\ ferw[0][0] = Filled(NBand)

\* C13 as stated: on the trivial system nelect_window returns the number of
\* bands inside the window, ib2 - ib1 + 1.
C13_BandCount ==
    (pc = "done" /\ TrivialSystem) =>
        nelect = ib_win[0][0][2] - ib_win[0][0][1] + 1

\* C13: on the trivial system nelect_window returns twice the number of bands
\* inside the window, 2 * (ib2 - ib1 + 1): the one spin channel counts double.
C13_TwiceBandCount ==
    (pc = "done" /\ TrivialSystem) =>
        nelect = 2 * (ib_win[0][0][2] - ib_win[0][0][1] + 1)

\* the trivial system with a window of two bands
C13_Witness ==
    /\ pc = "done"
    /\ TrivialSystem
    /\ ib_win[0][0] = <<0, 1>>
    /\ nelect = 4


\* ----------------------------------------------------------------- __init__
\* self.nb_max = ib_max - ib_min + 1
NbMax(ibmin, ibmax) == ibmax - ibmin + 1

\* the shells taken from the end of the list
CtorShellReversed(isl, i) == isl[Len(isl) + 1 - i]

\* for ish in self.ishells: the shell of the i-th pass
CtorShell(isl, i) == isl[i]

\* what a shell stores: the range of bands its projector arrays hold.
\* select_projectors keeps the bands ib_min .. ib_max of the window.
FullStorage(n) == <<0, n - 1>>
SelectProjectors(store, ibmin, ibmax) == <<ibmin, ibmax>>

\* inputs of the constructor: the energy window of the group
CtorWindows == {<<-3, 3>>, <<-1, 1>>, <<1, 3>>, <<-3, -1>>, <<1, -1>>}

InitCtor ==
    /\ eigvals \in EigArrays
    /\ nband = NBand
    /\ \E w \in CtorWindows : emin = w[1] /\ emax = w[2]
    /\ shells = [ish \in OrthoShellIds |-> [nion |-> 1, nlm |-> 1]]
    /\ ishells \in OrthoShellLists
    /\ normion = FALSE
    /\ ortho = TRUE
    /\ nb_max = 0
    /\ proj_win = [ish \in OrthoShellIds |-> FullStorage(NBand)]
    /\ proj0 = proj_win
    /\ ibm = 0
    /\ pc = "check"
    /\ isp = 0
    /\ ik = 0
    /\ ib_win = NoWin
    /\ ib_min = IbMinInit
    /\ ib_max = 0
    /\ result = "none"
    /\ err_ik = -1
    /\ run = 1
    /\ first = NoWin
    /\ MapIdle
    /\ MatIdle
    /\ LogIdle
    /\ AuxIdle

\* select_bands has returned: the fields of the group are stored
CtorStore ==
    /\ pc = "done"
    /\ nb_max' = NbMax(ib_min, ib_max)
    /\ pc' = IF Len(ishells) = 0 THEN "constructed" ELSE "shells"
    /\ UNCHANGED <<bandVars, result, shells, ishells, normion, ortho>>
    /\ UNCHANGED <<mapVars, matVars, projVars, orth_log, auxVars>>

\* one pass of 'for ish in self.ishells'; the last one ends the constructor
CtorSelect ==
    /\ pc = "shells"
    /\ LET i == Len(calls) + 1
           ish == CtorShell(ishells, i)
       IN  /\ calls' = Append(calls, [ish |-> ish, ib_win |-> ib_win,
                                       ib_min |-> ib_min, ib_max |-> ib_max])
           /\ proj_win' = [proj_win EXCEPT ![ish] = SelectProjectors(@, ib_min, ib_max)]
           /\ pc' = IF i = Len(ishells) THEN "constructed" ELSE "shells"
    /\ UNCHANGED <<bandVars, result, groupVars, mapVars, matVars, proj0, ibm, orth_log>>
    /\ UNCHANGED <<nelectVars, msgVars>>

NextCtor == SanityFail \/ SanityPass \/ BandStepFail \/ BandStep \/ CtorStore \/ CtorSelect

SpecCtor == InitCtor /\ [][NextCtor]_vars

\* C14: the constructor runs select_bands over the full eigenvalues, sets
\* nb_max = ib_max - ib_min + 1 and then calls select_projectors(ib_win,
\* ib_min, ib_max), with what select_bands returned, once on each shell of the
\* group's shell list, in list order, and on no other shell; no call is made
\* before select_bands has returned, and when select_bands fails no call is
\* made at all and every shell's storage stays as it was.
C14_ConstructorCalls ==
    /\ Len(calls) <= Len(ishells)
    /\ \A i \in 1 .. Len(calls) :
          /\ calls[i].ish = ishells[i]
          /\ calls[i].ib_win = ib_win
          /\ calls[i].ib_min = ib_min
          /\ calls[i].ib_max = ib_max
    /\ \A ish \in DOMAIN shells :
          (\A i \in 1 .. Len(calls) : calls[i].ish # ish) => proj_win[ish] = proj0[ish]
    /\ calls # <<>> => pc \in {"shells", "constructed"} /\ result = "ok" /\ run = 1
    /\ pc \in {"shells", "constructed"} => nb_max = ib_max - ib_min + 1
    /\ pc = "constructed" => Len(calls) = Len(ishells)
    /\ pc = "failed" => calls = <<>> /\ proj_win = proj0 /\ ~ENABLED NextCtor

\* a group of two shells listed out of index order has been constructed over
\* a window narrower than the band range
C14_Witness ==
    /\ pc = "constructed"
    /\ ishells = <<1, 0>>
    /\ Len(calls) = 2
    /\ calls[1].ish = 1
    /\ calls[2].ish = 0
    /\ nb_max = 2
    /\ nband = NBand

\* select_bands has failed in the constructor of a group of two shells
C14_FailureReached ==
    /\ pc = "failed"
    /\ result = "EmptyWindow"
    /\ Len(ishells) = 2


\* C15: with ortho false orthogonalize() returns at once: no block map is
\* built, orthogonalize_projector_matrix is not called, no scratch matrix is
\* made and every entry of every shell's storage keeps its value.
C15_OrthoOffNoOp ==
    ~ortho =>
        /\ pc \in {"start", "done"}
        /\ pc = "done" => result = "ok"
        /\ block_maps = <<>>
        /\ ndim = 0
        /\ orth_log = <<>>
        /\ p_mat = <<>>
        /\ p_orth = <<>>
        /\ proj_win = proj0

\* orthogonalize() has returned for a group of two shells with ortho false
C15_Witness ==
    /\ pc = "done"
    /\ ~ortho
    /\ ishells = <<0, 1>>
    /\ nb_max = 2

\* the block of bl_map that holds row i of the block matrix
BlockOfRow(bl_map, i) ==
    CHOOSE j \in 1 .. Len(bl_map) :
        bl_map[j].bmat_range[1] <= i /\ i < bl_map[j].bmat_range[2]

\* C16: the matrix handed to orthogonalize_projector_matrix for a (spin,
\* k-point, block map) has the rows 0 .. ibl_max - 1 and the band columns
\* 0 .. nb - 1, and each entry is the stored value of the block map's shell
\* and site owning that row, at that spin and k-point, same orbital and band;
\* the scratch matrix holds zeros everywhere outside the rows and columns
\* gathered in the last pass, so nothing of an earlier pass is left in it.
C16_OnlyCurrentBlockGathered ==
    /\ \A n \in 1 .. Len(orth_log) :
          LET c == orth_log[n]
              bl_map == block_maps[c.ibm]
              nb == BandCount(ib_win, c.ik, c.isp)
          IN  /\ DOMAIN c.P = 0 .. IblMax(bl_map) - 1
              /\ \A i \in DOMAIN c.P :
                    /\ DOMAIN c.P[i] = 0 .. nb - 1
                    /\ \E j \in 1 .. Len(bl_map) :
                          bl_map[j].bmat_range[1] <= i /\ i < bl_map[j].bmat_range[2]
                    /\ \A v \in DOMAIN c.P[i] :
                          LET blk == bl_map[BlockOfRow(bl_map, i)]
                          IN  c.P[i][v] = proj0[blk.shell_ion[1]][blk.shell_ion[2]]
                                               [c.isp][c.ik][i - blk.bmat_range[1]][v]
    /\ orth_log # <<>> =>
          LET c == orth_log[Len(orth_log)]
          IN  \A i \in DOMAIN p_mat : \A v \in DOMAIN p_mat[i] :
                 IF i \in DOMAIN c.P /\ v \in DOMAIN c.P[0]
                 THEN p_mat[i][v] = c.P[i][v]
                 ELSE p_mat[i][v] = Raw(0)

\* per-site orthogonalization of a two-orbital shell and, after it, of a
\* one-orbital shell, the second k-point with fewer bands than the first: the
\* second pass has fewer rows and the third fewer columns than the first
C16_Witness ==
    /\ normion
    /\ ishells = <<1, 0>>
    /\ Len(orth_log) = 3
    /\ NRows(orth_log[1].P) = 2
    /\ NCols(orth_log[1].P) = 2
    /\ NRows(orth_log[2].P) = 1
    /\ NCols(orth_log[3].P) = 1
    /\ orth_log[3].ik = 1

\* C17: for every block descriptor (i1, i2) of a shell, i2 - i1 is the shell's
\* nlm, the slice bound i2 - i1 + 1 selects exactly the shell's nlm orbital
\* rows, the gather and the scatter never fail on a shape mismatch, and the
\* orbital rows written back for a processed block are exactly 0 .. i2 - i1 - 1,
\* per site as well as group-wide.
C17_RowCountIsNlm ==
    (ortho /\ pc # "start") =>
        /\ result # "ShapeError"
        /\ \A bmi \in 1 .. Len(block_maps) : \A j \in 1 .. Len(block_maps[bmi]) :
              LET blk == block_maps[bmi][j]
                  i1 == blk.bmat_range[1]
                  i2 == blk.bmat_range[2]
                  ish == blk.shell_ion[1]
                  ion == blk.shell_ion[2]
              IN  /\ i2 - i1 = shells[ish].nlm
                  /\ i2 <= ndim
                  /\ SliceLen(SliceNlm(i1, i2), Cardinality(DOMAIN proj0[ish][ion][0][0]))
                         = i2 - i1
                  /\ \A sp \in DOMAIN ib_win[0] : \A k \in DOMAIN ib_win :
                        Processed(sp, k, bmi) =>
                            {m \in DOMAIN proj_win[ish][ion][sp][k] :
                                 proj_win[ish][ion][sp][k][m][0].kind = "orth"}
                                = 0 .. i2 - i1 - 1
        /\ \A n \in 1 .. Len(orth_log) :
              NRows(orth_log[n].P) = IblMax(block_maps[orth_log[n].ibm])

\* group-wide orthogonalization of a two-orbital shell has returned, both of
\* its orbital rows written back
C17_Witness ==
    /\ pc = "done"
    /\ ortho
    /\ ~normion
    /\ ishells = <<1>>
    /\ shells[1] = [nion |-> 1, nlm |-> 2]
    /\ block_maps[1][1].bmat_range = <<0, 2>>
    /\ proj_win[1][0][0][0][1][0].kind = "orth"

\* C18: a pass whose block matrix has an overlap eigenvalue that is not
\* positive ends orthogonalize() with the ill-conditioned failure: it is the
\* last call made, no combination is passed twice, no step follows, no
\* orthogonalized matrix is returned, and only the entries of the combinations
\* passed before it differ from what they were at the call.
C18_FailurePropagates ==
    /\ \A n \in 1 .. Len(orth_log) :
          ~AllEigPositive(Overlap(orth_log[n].P)) =>
              /\ n = Len(orth_log)
              /\ pc = "failed"
              /\ result = "IllConditioned"
    /\ \A a, b \in 1 .. Len(orth_log) :
          a < b => <<orth_log[a].isp, orth_log[a].ik, orth_log[a].ibm>>
                       # <<orth_log[b].isp, orth_log[b].ik, orth_log[b].ibm>>
    /\ pc = "failed" =>
          /\ result = "IllConditioned"
          /\ ~ENABLED NextOrtho
          /\ p_orth = <<>>
          /\ orth_log # <<>>
          /\ LET c == orth_log[Len(orth_log)]
             IN  c.isp = isp /\ c.ik = ik /\ c.ibm = ibm
          /\ \A ish \in DOMAIN shells : \A ion \in DOMAIN proj_win[ish] :
             \A sp \in DOMAIN ib_win[0] : \A k \in DOMAIN ib_win :
                (~InGroup(ish) \/ ~Processed(sp, k, BlockPlace(ish, ion)[1]))
                    => proj_win[ish][ion][sp][k] = proj0[ish][ion][sp][k]

\* the second k-point fails after the first one has been written
C18_Witness ==
    /\ pc = "failed"
    /\ result = "IllConditioned"
    /\ ik = 1
    /\ Len(orth_log) >= 2
    /\ \E ish \in DOMAIN shells :
          /\ InGroup(ish)
          /\ proj_win[ish][0][0][0][0][0].kind = "orth"
          /\ proj_win[ish][0][0][1] = proj0[ish][0][0][1]


\* ------------------------------------------ messaging: writing the HDF file
\* The processes of one MPI run all make the same call, each at its own pace.
\* The HDF file is [group, items, writers]: whether the group 'name' exists,
\* item |-> the rank that wrote it last (NoRank: not there), and the ranks
\* that have opened the file for appending.
Ranks == 0 .. NProc - 1
NoRank == -1
\* the dictionary handed to the call, in the order its items are visited
Dictionary == <<"a", "b">>
DictItems == {Dictionary[i] : i \in 1 .. Len(Dictionary)}
At(where, n) == [at |-> where, n |-> n]

\* mpi.is_master_node(), called
IsMasterNode(r) == r = 0

\* if mpi.is_master_node: the function itself, not its result, is tested,
\* and a function object is true on every rank
SaveGuard(r) == TRUE

\* if mpi.is_master_node(): in _update_par_hdf
UpdateGuard(r) == IsMasterNode(r)

\* report_error: the master aborts the run, any other rank returns
ReportError(r) ==
    IF IsMasterNode(r) THEN [q \in Ranks |-> At("aborted", 0)]
    ELSE [rank_pc EXCEPT ![r] = At("done", 0)]

InitSave ==
    /\ pc = "mpi"
    /\ result = "none"
    /\ \E call \in {"save", "update"} : rank_pc = [r \in Ranks |-> At(call, 0)]
    /\ \E g \in BOOLEAN :
          hdf = [group |-> g, items |-> [it \in DictItems |-> NoRank], writers |-> {}]
    /\ brackets = BracketsNone
    /\ ended = "none"
    /\ BandIdle
    /\ GroupIdle
    /\ MapIdle
    /\ MatIdle
    /\ ProjIdle
    /\ LogIdle
    /\ NelectIdle
    /\ CallsIdle

SaveIdle ==
    UNCHANGED <<pc, bandVars, groupVars, mapVars, matVars, projVars, orth_log,
                nelectVars, calls, brackets, ended>>

\* _save_par_hdf up to the opening of the archive
SaveEnter(r) ==
    /\ rank_pc[r] = At("save", 0)
    /\ IF SaveGuard(r)
       THEN /\ rank_pc' = [rank_pc EXCEPT ![r] = At("open", 0)]
            /\ hdf' = [hdf EXCEPT !.writers = @ \cup {r}]
       ELSE /\ rank_pc' = [rank_pc EXCEPT ![r] = At("done", 0)]
            /\ hdf' = hdf
    /\ result' = result
    /\ SaveIdle

\* _save_par_hdf: opening the archive raises IOError
SaveOpenFail(r) ==
    /\ rank_pc[r] = At("save", 0)
    /\ SaveGuard(r)
    /\ rank_pc' = ReportError(r)
    /\ result' = IF IsMasterNode(r) THEN "Aborted" ELSE result
    /\ hdf' = hdf
    /\ SaveIdle

\* if not (name in ar): report_warning; ar.create_group(name)
SaveGroup(r) ==
    /\ rank_pc[r] = At("open", 0)
    /\ hdf' = [hdf EXCEPT !.group = TRUE]
    /\ rank_pc' = [rank_pc EXCEPT ![r] = At("write", 0)]
    /\ result' = result
    /\ SaveIdle

\* one pass of 'for it in dictionary'; after the last one the archive is closed
SaveItem(r) ==
    /\ rank_pc[r].at = "write"
    /\ LET n == rank_pc[r].n + 1
       IN  /\ hdf' = [hdf EXCEPT !.items[Dictionary[n]] = r]
           /\ rank_pc' = [rank_pc EXCEPT ![r] =
                             IF n = Len(Dictionary) THEN At("done", 0) ELSE At("write", n)]
    /\ result' = result
    /\ SaveIdle

\* _update_par_hdf
UpdateCall(r) ==
    /\ rank_pc[r] = At("update", 0)
    /\ IF UpdateGuard(r)
       THEN hdf' = [group |-> TRUE, items |-> [it \in DictItems |-> r],
                    writers |-> hdf.writers \cup {r}]
       ELSE hdf' = hdf
    /\ rank_pc' = [rank_pc EXCEPT ![r] = At("done", 0)]
    /\ result' = result
    /\ SaveIdle

\* _update_par_hdf: opening the archive raises IOError
UpdateFail(r) ==
    /\ rank_pc[r] = At("update", 0)
    /\ UpdateGuard(r)
    /\ rank_pc' = ReportError(r)
    /\ result' = "Aborted"
    /\ hdf' = hdf
    /\ SaveIdle

NextSave ==
    \E r \in Ranks :
        \/ SaveEnter(r)
        \/ SaveOpenFail(r)
        \/ SaveGroup(r)
        \/ SaveItem(r)
        \/ UpdateCall(r)
        \/ UpdateFail(r)

SpecSave == InitSave /\ [][NextSave]_vars

\* C19: only the master process opens and writes the HDF file: no rank other
\* than the master is among the ranks that opened it, has written an item or
\* is inside the writing part of the call.
C19_OnlyMasterWrites ==
    /\ \A r \in hdf.writers : IsMasterNode(r)
    /\ \A it \in DictItems : hdf.items[it] # NoRank => IsMasterNode(hdf.items[it])
    /\ \A r \in Ranks : rank_pc[r].at \in {"open", "write"} => IsMasterNode(r)

\* two ranks are inside the item loop of _save_par_hdf at the same time
C19_TwoWriters ==
    \E r, q \in Ranks : r # q /\ rank_pc[r].at = "write" /\ rank_pc[q].at = "write"


\* -------------------------------------------------------- messaging: Bracket
\* Lists are counted from 1 here and from 0 in the source: position p here is
\* index p - 1 there.  The run is a serial one, so report_error aborts it.
BracketsPatterns == ("]" :> "[") @@ (")" :> "(") @@ ("}" :> "{") @@ (">" :> "<")
Closing == DOMAIN BracketsPatterns
Busted == "Bracket_PAIR_BUSTED!"

\* l.count(x)
Count(l, x) == Cardinality({i \in 1 .. Len(l) : l[i] = x})
\* x in l
IsIn(l, x) == \E i \in 1 .. Len(l) : l[i] = x
\* l.index(x)
Index(l, x) == CHOOSE i \in 1 .. Len(l) : l[i] = x /\ \A j \in 1 .. i - 1 : l[j] # x

\* for item in range(counter): the opening bracket looked for in
\* brackets[current_position_old:ind]; returns current_position_new
RECURSIVE SearchOpen(_, _, _, _, _, _)
SearchOpen(wk, open, old, new, ind, counter) ==
    IF counter = 0 THEN new
    ELSE LET S == {p \in old .. ind - 1 : wk[p] = open}
         IN  IF S = {} THEN new
             ELSE LET q == CHOOSE p \in S : \A r \in S : p <= r
                  IN  SearchOpen(wk, open, q + 1, q, ind, counter - 1)

\* for bracket in self.brackets, from position ind on: orig is self.brackets,
\* wk the local copy 'brackets', rm the indices of ind_brackets_to_remove.
\* Returns [err, rm]; err: report_error("Wrong parenthesis") was reached.
RECURSIVE FindLoop(_, _, _, _)
FindLoop(orig, wk, rm, ind) ==
    IF ind > Len(orig) THEN [err |-> FALSE, rm |-> rm]
    ELSE IF orig[ind] \notin Closing THEN FindLoop(orig, wk, rm, ind + 1)
    ELSE LET open == BracketsPatterns[orig[ind]]
         IN  IF IsIn(orig, open)
             THEN LET new == SearchOpen(wk, open, Index(orig, open), Index(orig, open),
                                        ind, Count(wk, open))
                  IN  FindLoop(orig, [wk EXCEPT ![new] = Busted], rm \cup {ind, new}, ind + 1)
             ELSE [err |-> TRUE, rm |-> rm \cup {ind}]

\* the brackets whose index is not in ind_brackets_to_remove, in order
RECURSIVE Kept(_, _, _)
Kept(orig, rm, n) ==
    IF n = 0 THEN <<>>
    ELSE IF n \in rm THEN Kept(orig, rm, n - 1)
    ELSE Append(Kept(orig, rm, n - 1), orig[n])

\* inputs: the brackets handed to one add_brackets call
BracketSymbols == {"(", ")", "[", "]"}
BracketLists == {<<>>} \cup {<<x>> : x \in BracketSymbols}
                       \cup {<<x, y>> : x \in {"(", ")"}, y \in {"(", ")"}}

InitBracket ==
    /\ pc = "bracket"
    /\ result = "none"
    /\ brackets = BracketsNone
    /\ ended = "none"
    /\ rank_pc = <<>>
    /\ hdf = <<>>
    /\ BandIdle
    /\ GroupIdle
    /\ MapIdle
    /\ MatIdle
    /\ ProjIdle
    /\ LogIdle
    /\ NelectIdle
    /\ CallsIdle

BracketIdle ==
    UNCHANGED <<bandVars, groupVars, mapVars, matVars, projVars, orth_log,
                nelectVars, calls, rank_pc, hdf>>

AddBrackets ==
    /\ pc # "aborted"
    /\ \E bracket_list \in BracketLists :
          /\ (IF brackets = BracketsNone THEN 0 ELSE Len(brackets)) + Len(bracket_list)
                 <= MaxBrackets
          /\ brackets' = IF brackets = BracketsNone
                         THEN (IF bracket_list # <<>> THEN bracket_list ELSE brackets)
                         ELSE (IF bracket_list # <<>> THEN brackets \o bracket_list
                               ELSE brackets)
    /\ pc' = "added"
    /\ UNCHANGED <<result, ended>>
    /\ BracketIdle

FindParenthesis ==
    /\ pc # "aborted"
    /\ IF brackets = BracketsNone
       THEN /\ pc' = "found"
            /\ UNCHANGED <<brackets, result>>
       ELSE LET r == FindLoop(brackets, brackets, {}, 1)
            IN  IF r.err
                THEN /\ pc' = "aborted"
                     /\ result' = "WrongParenthesis"
                     /\ brackets' = brackets
                ELSE /\ pc' = "found"
                     /\ result' = result
                     /\ brackets' = Kept(brackets, r.rm, Len(brackets))
    /\ ended' = ended
    /\ BracketIdle

ResetBrackets ==
    /\ pc # "aborted"
    /\ brackets' = <<>>
    /\ pc' = "reset"
    /\ UNCHANGED <<result, ended>>
    /\ BracketIdle

AreBracketsEnded ==
    /\ pc # "aborted"
    /\ ended' = IF brackets = BracketsNone \/ brackets = <<>> THEN "True" ELSE "False"
    /\ pc' = "asked"
    /\ UNCHANGED <<result, brackets>>
    /\ BracketIdle

NextBracket == AddBrackets \/ FindParenthesis \/ ResetBrackets \/ AreBracketsEnded

SpecBracket == InitBracket /\ [][NextBracket]_vars

\* the opening bracket of the kind of closing bracket c
OpenOf(c) == BracketsPatterns[c]
\* closing bracket number p of l has no opening bracket of its kind left for
\* it: up to p there are more closing than opening brackets of the kind
Unmatched(l, p) ==
    /\ l[p] \in Closing
    /\ Cardinality({i \in 1 .. p : l[i] = l[p]})
           > Cardinality({i \in 1 .. p : l[i] = OpenOf(l[p])})
HasUnmatchedCloser(l) == \E p \in 1 .. Len(l) : Unmatched(l, p)
\* the step is a call of find_parenthesis on a record that is a list
FindStep == pc # "aborted" /\ pc' \in {"found", "aborted"} /\ brackets # BracketsNone

\* C20: find_parenthesis reports 'Wrong parenthesis' when some closing bracket
\* has no distinct, not yet paired opening bracket of its kind recorded before
\* it; otherwise it reports nothing and removes every closing bracket
\* together with one opening bracket of its kind per closing bracket; and
\* are_brackets_ended() returns True only on an empty record.
C20_PairsOrReports ==
    [][/\ FindStep =>
             IF HasUnmatchedCloser(brackets)
             THEN pc' = "aborted" /\ result' = "WrongParenthesis"
             ELSE /\ pc' = "found"
                  /\ result' = result
                  /\ \A i \in 1 .. Len(brackets') : brackets'[i] \notin Closing
                  /\ \A c \in Closing :
                        Count(brackets', OpenOf(c))
                            = Count(brackets, OpenOf(c)) - Count(brackets, c)
       /\ (pc' = "asked" /\ ended' = "True") => brackets \in {BracketsNone, <<>>}
      ]_vars

=============================================================================
